---- MODULE Spec2Model ----
(***************************************************************************)
(* Model of the ReadRight backend (src/main.py): an Appwrite serverless   *)
(* function that turns a URL or raw text into a dyslexia-friendly         *)
(* article, a summary and an audio narration, and stores the result.      *)
(*                                                                         *)
(* Python strings that the code inspects (strip, truthiness, regular      *)
(* expressions) are sequences of one-character strings; <<>> is "".       *)
(* Header values and identifiers that the code only compares or passes    *)
(* on are TLA+ strings.                                                    *)
(***************************************************************************)
EXTENDS Integers, Sequences, FiniteSets, TLC

VARIABLES
    env,        \* os.environ: the set of configuration keys that are set
    tmpfile,    \* content of /tmp/audio.mp3 (NoFile when absent)
    bucket,     \* object storage: the set of uploaded files
    rows,       \* table store: the set of created rows
    pc,         \* per invocation: position in main
    req,        \* per invocation: context.req
    loc,        \* per invocation: local variables of main
    resp,       \* per invocation: the response main returned
    calls,      \* per invocation: external calls made so far, in order
    errlog,     \* per invocation: messages passed to context.error
    stream,     \* per invocation: the file handle tts.save holds open
    fb          \* harness state of a stand-alone generate_with_fallback call

vars ==
    <<env, tmpfile, bucket, rows, pc, req, loc, resp, calls, errlog, stream, fb>>

mainVars ==
    <<env, tmpfile, bucket, rows, pc, req, loc, resp, calls, errlog, stream>>

-----------------------------------------------------------------------------
(* Bounds *)

\* Longest text a stubbed model returns in the stand-alone fallback harness.
MaxLlmTextLen == 2

\* Number of handler invocations an execution environment serves.
NumInvocations == 2

\* Number of pieces the audio stream of one synthesis delivers.
AudioChunks == 2

-----------------------------------------------------------------------------
(* Python values *)

\* Python None; no string equals it (strings hold one-character elements).
None == <<"None">>

\* str(None)
NoneStr == <<"N", "o", "n", "e">>

\* bool(x) for x a string or None
Truthy(x) == x # None /\ x # <<>>

\* str(x) for x a string or None
Str(x) == IF x = None THEN NoneStr ELSE x

\* Characters a string literal of this module cannot hold, named by their
\* code point: as elements of a text they stand for that character.
UnicodeSpaces ==
    {"U+2000", "U+2001", "U+2002", "U+2003", "U+2004", "U+2005",
     "U+2006", "U+2007", "U+2008", "U+2009", "U+200A", "U+2028",
     "U+2029", "U+202F", "U+205F", "U+3000"}

\* Characters str.strip() removes (those str.isspace() holds for): space,
\* \n, \t, \r, \f, then U+000B, U+001C..U+001F, U+0085, U+00A0 and U+1680
\* written as they are, and the sixteen spaces from U+2000 on.
Whitespace ==
    {" ", "\n", "\t", "\r", "\f",
     "", "", "", "", "", "", " ", " "} \cup UnicodeSpaces

RECURSIVE LStrip(_)
LStrip(s) ==
    IF s # <<>> /\ Head(s) \in Whitespace THEN LStrip(Tail(s)) ELSE s

RECURSIVE RStrip(_)
RStrip(s) ==
    IF s # <<>> /\ s[Len(s)] \in Whitespace
    THEN RStrip(SubSeq(s, 1, Len(s) - 1))
    ELSE s

\* str.strip()
Strip(s) == RStrip(LStrip(s))

\* All strings over alphabet of length at most n.
StringsUpTo(alphabet, n) == UNION {[1..k -> alphabet] : k \in 0..n}

-----------------------------------------------------------------------------
(* CORS origin gate *)

ALLOWED_ORIGINS == {"http://localhost:8080", "https://readright.appwrite.network"}

get_origin_header_any(origin) == origin

get_origin_header(origin) == IF origin \in ALLOWED_ORIGINS THEN origin ELSE ""

-----------------------------------------------------------------------------
(* LLM service and the model fallback loop *)

models == <<"gemini-2.5-flash", "gemini-2.0-flash", "gemini-1.5-flash">>

\* The config generate_with_fallback passes with a model.
ThinkingConfig == "thinking_budget=-1"
DefaultConfig == "default"
ModelConfig(model) ==
    IF model = "gemini-2.5-flash" THEN ThinkingConfig ELSE DefaultConfig

\* What one generate_content call does: raise, or return a result whose
\* .text is a string or None.
Raises == [kind |-> "raise"]
Returns(text) == [kind |-> "result", text |-> text]

\* The exception a raising call of `model` throws.
ApiError(model) == [type |-> "APIError", by |-> model]
\* "No exception": the None of `last_error = None` and of `from None`.
NoError == [type |-> "None"]
\* None.strip() in line 57, for a result without text.
AttributeError(model) == [type |-> "AttributeError", by |-> model]

LlmCall(model, prompt, config) ==
    [svc |-> "llm", model |-> model, prompt |-> prompt, config |-> config]

\* State of the loop of generate_with_fallback before its first iteration.
GwfStart ==
    [i |-> 1, last_error |-> NoError, calls |-> <<>>, status |-> "loop",
     value |-> None, error |-> NoError]

GwfBodyNoShortCircuit(st, prompt, outcome) ==
    LET model == models[st.i]
        call  == LlmCall(model, prompt, ModelConfig(model))
        next  == [st EXCEPT !.i = st.i + 1, !.calls = Append(st.calls, call)]
    IN  IF outcome.kind = "raise"
        THEN [next EXCEPT !.last_error = ApiError(model)]
        ELSE IF outcome.text = None
        THEN [next EXCEPT !.last_error = AttributeError(model)]
        ELSE IF Truthy(Strip(outcome.text)) /\ st.value = None
        THEN [next EXCEPT !.value = Strip(outcome.text)]
        ELSE next

GwfBodyAbortOnRaise(st, prompt, outcome) ==
    LET model == models[st.i]
        call  == LlmCall(model, prompt, ModelConfig(model))
        next  == [st EXCEPT !.i = st.i + 1, !.calls = Append(st.calls, call)]
    IN  IF outcome.kind = "raise"
        THEN [next EXCEPT !.last_error = ApiError(model), !.i = Len(models) + 1]
        ELSE IF outcome.text = None
        THEN [next EXCEPT !.last_error = AttributeError(model)]
        ELSE IF Truthy(Strip(outcome.text))
        THEN [next EXCEPT !.status = "returned", !.value = Strip(outcome.text)]
        ELSE next

GwfBodyFirstError(st, prompt, outcome) ==
    LET model == models[st.i]
        call  == LlmCall(model, prompt, ModelConfig(model))
        next  == [st EXCEPT !.i = st.i + 1, !.calls = Append(st.calls, call)]
        keep(e) == IF st.last_error = NoError THEN e ELSE st.last_error
    IN  IF outcome.kind = "raise"
        THEN [next EXCEPT !.last_error = keep(ApiError(model))]
        ELSE IF outcome.text = None
        THEN [next EXCEPT !.last_error = keep(AttributeError(model))]
        ELSE IF Truthy(Strip(outcome.text))
        THEN [next EXCEPT !.status = "returned", !.value = Strip(outcome.text)]
        ELSE next

GwfBodyEmptyIsError(st, prompt, outcome) ==
    LET model == models[st.i]
        call  == LlmCall(model, prompt, ModelConfig(model))
        next  == [st EXCEPT !.i = st.i + 1, !.calls = Append(st.calls, call)]
    IN  IF outcome.kind = "raise"
        THEN [next EXCEPT !.last_error = ApiError(model)]
        ELSE IF outcome.text = None
        THEN [next EXCEPT !.last_error = AttributeError(model)]
        ELSE IF Truthy(Strip(outcome.text))
        THEN [next EXCEPT !.status = "returned", !.value = Strip(outcome.text)]
        ELSE [next EXCEPT !.last_error = [type |-> "ValueError", by |-> model]]

\* One iteration of the for loop (lines 51-62) on models[st.i], given what
\* the generate_content call does.
GwfBody(st, prompt, outcome) ==
    LET model == models[st.i]
        call  == LlmCall(model, prompt, ModelConfig(model))
        next  == [st EXCEPT !.i = st.i + 1, !.calls = Append(st.calls, call)]
    IN  IF outcome.kind = "raise"
        THEN [next EXCEPT !.last_error = ApiError(model)]
        ELSE IF outcome.text = None
        THEN [next EXCEPT !.last_error = AttributeError(model)]
        ELSE IF Truthy(Strip(outcome.text))
        THEN [next EXCEPT !.status = "returned", !.value = Strip(outcome.text)]
        ELSE next

\* Line 64, reached when the loop ends without a return.
GwfExhausted(st) ==
    [st EXCEPT !.status = "raised",
               !.error = [type |-> "RuntimeError",
                          msg |-> "All Gemini models failed",
                          cause |-> st.last_error]]

\* The loop from state st to the end of the function; out[i] is what the
\* call of models[i] does.
RECURSIVE GwfRun(_, _, _)
GwfRun(st, prompt, out) ==
    IF st.status # "loop" THEN st
    ELSE IF st.i > Len(models) THEN GwfExhausted(st)
    ELSE GwfRun(GwfBody(st, prompt, out[st.i]), prompt, out)

generate_with_fallback(prompt, out) == GwfRun(GwfStart, prompt, out)

-----------------------------------------------------------------------------
(* Prompts: a fixed template with the article text interpolated verbatim *)

Prompt(template, text) == [template |-> template, text |-> text]

SIMPLIFY_TEMPLATE ==
    "Rewrite this article to be dyslexia-friendly with large spacing and easy-to-read formatting. Do not add any headings, labels, or commentary. Only output the rewritten article:\n\n"
TLDR_TEMPLATE ==
    "Summarize this article in concise bullet points only. Do not add any introduction or labels, just the bullets:\n\n"
TITLE_TEMPLATE ==
    "Generate a concise and descriptive title for the following article only. Do not add any additional commentary or explanation. Just the title:\n\n"

-----------------------------------------------------------------------------
(* Stand-alone generate_with_fallback: the Gemini client is a stub whose    *)
(* behaviour per model is fixed beforehand (fb.out), and the loop runs one  *)
(* iteration per step.                                                      *)

FbAlphabet == {" ", "a", "b"}

FbOutcomes ==
    {Raises, Returns(None)}
        \cup {Returns(t) : t \in StringsUpTo(FbAlphabet, MaxLlmTextLen)}

FbPrompt == Prompt(SIMPLIFY_TEMPLATE, <<"x">>)

FbIdle == [active |-> FALSE]

FallbackCall(out) ==
    [active |-> TRUE, out |-> out, prompt |-> FbPrompt, st |-> GwfStart]

FallbackIterate ==
    /\ fb.active
    /\ fb.st.status = "loop"
    /\ fb.st.i <= Len(models)
    /\ fb' = [fb EXCEPT !.st = GwfBody(fb.st, fb.prompt, fb.out[fb.st.i])]
    /\ UNCHANGED mainVars

FallbackExhaust ==
    /\ fb.active
    /\ fb.st.status = "loop"
    /\ fb.st.i > Len(models)
    /\ fb' = [fb EXCEPT !.st = GwfExhausted(fb.st)]
    /\ UNCHANGED mainVars

-----------------------------------------------------------------------------
(* Dictionaries (headers, query, JSON objects, os.environ) are sets of     *)
(* <<key, value>> pairs with at most one pair per key.                     *)

HasKey(d, key) == \E e \in d : e[1] = key

\* d[key], defined when HasKey(d, key)
Lookup(d, key) == (CHOOSE e \in d : e[1] = key)[2]

\* d.get(key, default)
DictGet(d, key, default) == IF HasKey(d, key) THEN Lookup(d, key) ELSE default

KeyError(key) == [type |-> "KeyError", key |-> key]

-----------------------------------------------------------------------------
(* Article acquisition *)

\* obj.get("text", ""), obj.get("title", "Untitled") of line 41
Untitled == <<"U", "n", "t", "i", "t", "l", "e", "d">>

\* requests.Response.raise_for_status raises for 4xx and 5xx.
RaisesForStatus(status) == status >= 400 /\ status < 600

fetch_article_text_no_status_check(response) ==
    IF response.kind = "exception" THEN <<<<>>, <<>>>>
    ELSE IF ~response.json_ok THEN <<<<>>, <<>>>>
    ELSE LET objects == DictGet(response.data, "objects", <<{}>>)
         IN  IF objects = <<>> THEN <<<<>>, <<>>>>
             ELSE <<DictGet(objects[1], "text", <<>>),
                    DictGet(objects[1], "title", Untitled)>>

fetch_article_text_default_object(response) ==
    IF response.kind = "exception" THEN <<<<>>, <<>>>>
    ELSE IF RaisesForStatus(response.status) THEN <<<<>>, <<>>>>
    ELSE IF ~response.json_ok THEN <<<<>>, <<>>>>
    ELSE LET objects == DictGet(response.data, "objects", <<{}>>)
             obj == IF objects = <<>> THEN {} ELSE objects[1]
         IN  IF response.status = 404 THEN <<<<>>, <<>>>>
             ELSE <<DictGet(obj, "text", <<>>), DictGet(obj, "title", Untitled)>>

\* fetch_article_text, given what requests.get does: raise (network error,
\* timeout) or return a response with a status, a body that parses as JSON
\* or not, and the parsed object.
fetch_article_text(response) ==
    IF response.kind = "exception" THEN <<<<>>, <<>>>>
    ELSE IF RaisesForStatus(response.status) THEN <<<<>>, <<>>>>
    ELSE IF ~response.json_ok THEN <<<<>>, <<>>>>
    ELSE LET objects == DictGet(response.data, "objects", <<{}>>)
         IN  IF objects = <<>> THEN <<<<>>, <<>>>>    \* [][0]: IndexError
             ELSE IF response.status = 404 THEN <<<<>>, <<>>>>
             ELSE <<DictGet(objects[1], "text", <<>>),
                    DictGet(objects[1], "title", Untitled)>>

-----------------------------------------------------------------------------
(* Text sanitization for speech *)

\* The backtick character (TLA+ strings cannot hold one).
Backtick == "<backtick>"

RECURSIVE RemoveChars(_, _)
RemoveChars(s, chars) ==
    IF s = <<>> THEN <<>>
    ELSE IF Head(s) \in chars THEN RemoveChars(Tail(s), chars)
    ELSE <<Head(s)>> \o RemoveChars(Tail(s), chars)

\* Characters \s matches in a str pattern: those str.isspace() holds for.
ReSpace == Whitespace

\* First index >= i of s whose character is not in chars (Len(s)+1 if none).
RECURSIVE SkipWhile(_, _, _)
SkipWhile(s, i, chars) ==
    IF i <= Len(s) /\ s[i] \in chars THEN SkipWhile(s, i + 1, chars) ELSE i

\* re.sub(r'^#+\s*', '', s, flags=re.MULTILINE) from index i on.
RECURSIVE StripHeadings(_, _)
StripHeadings(s, i) ==
    IF i > Len(s) THEN <<>>
    ELSE IF (i = 1 \/ s[i - 1] = "\n") /\ s[i] = "#"
    THEN StripHeadings(s, SkipWhile(s, SkipWhile(s, i, {"#"}), ReSpace))
    ELSE <<s[i]>> \o StripHeadings(s, i + 1)

clean_text_for_tts(text) ==
    LET t1 == RemoveChars(text, {"*", "_"})
        t2 == StripHeadings(t1, 1)
    IN  RemoveChars(t2, {Backtick, ">", "~"})

-----------------------------------------------------------------------------
(* The handler: requests, responses, configuration *)

Procs == 1..NumInvocations

PROJECT_ID  == "APPWRITE_FUNCTION_PROJECT_ID"
FUNCTION_ID == "APPWRITE_FUNCTION_ID"
BUCKET_ID   == "APPWRITE_BUCKET_ID"
DATABASE_ID == "APPWRITE_DATABASE_ID"
TABLE_ID    == "APPWRITE_TABLE_ID"

EnvKeys == {PROJECT_ID, FUNCTION_ID, BUCKET_ID, DATABASE_ID, TABLE_ID}

\* os.environ with every key set (each to a value named after it).
FullEnv == {<<k, k>> : k \in EnvKeys}

\* Configurations considered: complete, or one key missing.
Environs == {FullEnv} \cup {FullEnv \ {<<k, k>>} : k \in EnvKeys}

ACAO == "Access-Control-Allow-Origin"

\* headers={"Access-Control-Allow-Origin": allowed_origin}
CorsHeaders(allowed_origin) == {<<ACAO, allowed_origin>>}

PreflightHeaders(allowed_origin) ==
    {<<ACAO, allowed_origin>>,
     <<"Access-Control-Allow-Methods", "POST, GET, OPTIONS">>,
     <<"Access-Control-Allow-Headers", "Content-Type, Authorization">>}

\* context.res.send(body, status, headers)
Send(body, status, headers) ==
    [status |-> status, body |-> [kind |-> "text", text |-> body],
     headers |-> headers]

\* context.res.json(obj, headers=headers): status 200
Json(obj, headers) ==
    [status |-> 200, body |-> [kind |-> "json", json |-> obj],
     headers |-> headers]

NoResponse == [status |-> 0]
NoRequest == [method |-> "none"]

\* str(e) as passed to context.error
ExcStr(e) == IF e.type = "KeyError" THEN <<"'", e.key, "'">> ELSE <<e.msg>>

NoLink == [bucket |-> "", file |-> 0, project |-> ""]

\* Locals of main before the first statement.
LocInit ==
    [allowed_origin |-> "", article_text |-> None, title |-> None,
     docid |-> None, simplified |-> None, tldr |-> None,
     audio_link |-> NoLink]

Handle500Escapes(e, allowed_origin) ==
    [pc |-> "done", log |-> <<>>, resp |-> NoResponse]

\* The except clause of main (lines 220-226).
Handle500(e, allowed_origin) ==
    [pc |-> "done", log |-> <<ExcStr(e)>>,
     resp |-> Send(<<>>, 500, CorsHeaders(allowed_origin))]

Return(response) == [pc |-> "done", log |-> <<>>, resp |-> response]

Continue(next) == [pc |-> next, log |-> <<>>, resp |-> NoResponse]

MainDispatchPostUrlFirst(r, allowed_origin) ==
    IF ~r.body_is_object
    THEN Handle500([type |-> "AttributeError",
                    msg |-> "body has no attribute get"], allowed_origin)
    ELSE LET url  == DictGet(r.body, "url", None)
             text == DictGet(r.body, "text", None)
         IN  IF Truthy(url) THEN Continue("fetch_article")
             ELSE IF Truthy(text) THEN Continue("generate_title")
             ELSE Return(Send(<<>>, 400, CorsHeaders(allowed_origin)))

MainDispatchPostKeyPresence(r, allowed_origin) ==
    IF ~r.body_is_object
    THEN Handle500([type |-> "AttributeError",
                    msg |-> "body has no attribute get"], allowed_origin)
    ELSE IF HasKey(r.body, "text") THEN Continue("generate_title")
    ELSE IF HasKey(r.body, "url") THEN Continue("fetch_article")
    ELSE Return(Send(<<>>, 400, CorsHeaders(allowed_origin)))

MainDispatchPostExactlyOne(r, allowed_origin) ==
    IF ~r.body_is_object
    THEN Handle500([type |-> "AttributeError",
                    msg |-> "body has no attribute get"], allowed_origin)
    ELSE LET url  == DictGet(r.body, "url", None)
             text == DictGet(r.body, "text", None)
         IN  IF Truthy(text) /\ Truthy(url)
             THEN Return(Send(<<>>, 400, CorsHeaders(allowed_origin)))
             ELSE IF Truthy(text) THEN Continue("generate_title")
             ELSE IF Truthy(url) THEN Continue("fetch_article")
             ELSE Return(Send(<<>>, 400, CorsHeaders(allowed_origin)))

\* Lines 159-178: read the body and choose the source of the article.
MainDispatchPost(r, allowed_origin) ==
    IF ~r.body_is_object
    THEN Handle500([type |-> "AttributeError",
                    msg |-> "body has no attribute get"], allowed_origin)
    ELSE LET url  == DictGet(r.body, "url", None)
             text == DictGet(r.body, "text", None)
         IN  IF Truthy(text) THEN Continue("generate_title")
             ELSE IF Truthy(url) THEN Continue("fetch_article")
             ELSE Return(Send(<<>>, 400, CorsHeaders(allowed_origin)))

MainEntryStepSetupFirst(r, environ) ==
    LET origin == DictGet(r.headers, "origin", "")
        allowed_origin == get_origin_header(origin)
    IN  IF ~HasKey(environ, PROJECT_ID)
        THEN Handle500(KeyError(PROJECT_ID), allowed_origin)
        ELSE IF ~HasKey(r.headers, "x-appwrite-key")
        THEN Handle500(KeyError("x-appwrite-key"), allowed_origin)
        ELSE IF r.method = "OPTIONS"
        THEN Return(Send(<<>>, 200, PreflightHeaders(allowed_origin)))
        ELSE IF r.method = "GET" THEN Continue("get_execution")
        ELSE MainDispatchPost(r, allowed_origin)

\* Lines 120-178 of main, up to its first call of an external service:
\* what main does with request r under configuration environ.
MainEntryStep(r, environ) ==
    LET origin == DictGet(r.headers, "origin", "")
        allowed_origin == get_origin_header(origin)
    IN  IF r.method = "OPTIONS"
        THEN Return(Send(<<>>, 200, PreflightHeaders(allowed_origin)))
        ELSE IF ~HasKey(environ, PROJECT_ID)
        THEN Handle500(KeyError(PROJECT_ID), allowed_origin)
        ELSE IF ~HasKey(r.headers, "x-appwrite-key")
        THEN Handle500(KeyError("x-appwrite-key"), allowed_origin)
        ELSE IF r.method = "GET" THEN Continue("get_execution")
        ELSE MainDispatchPost(r, allowed_origin)

-----------------------------------------------------------------------------
(* The external services as main calls them, given what the service does *)

generate_title_with_fallback(text, outcome) ==
    LET call(m) == LlmCall(m, Prompt(TITLE_TEMPLATE, text), ModelConfig(m))
    IN  IF outcome.kind = "raise"
        THEN [status |-> "returned", value |-> <<"T">>,
              calls |-> <<call(models[1]), call(models[2])>>,
              error |-> NoError]
        ELSE [status |-> "returned", value |-> Str(outcome.text),
              calls |-> <<call(models[1])>>, error |-> NoError]

\* generate_title (lines 86-96): one call of the primary model, no handler.
generate_title(text, outcome) ==
    LET call == LlmCall("gemini-2.5-flash", Prompt(TITLE_TEMPLATE, text),
                        ThinkingConfig)
    IN  IF outcome.kind = "raise"
        THEN [status |-> "raised", value |-> None, calls |-> <<call>>,
              error |-> [type |-> "APIError", by |-> "gemini-2.5-flash",
                         msg |-> "generate_content failed"]]
        ELSE [status |-> "returned", value |-> Str(outcome.text),
              calls |-> <<call>>, error |-> NoError]

generate_simplified_text(text, out) ==
    generate_with_fallback(Prompt(SIMPLIFY_TEMPLATE, text), out)

generate_tldr(text, out) ==
    generate_with_fallback(Prompt(TLDR_TEMPLATE, text), out)

AUDIO_PATH == "/tmp/audio.mp3"
VOICE == "en-GB-LibbyNeural"

\* The file at a path: absent, or its content, a sequence of pieces of
\* audio. A piece is the n-th piece of the audio of a text; a hole is what
\* a write past the end of the file leaves before it.
NoFile == [kind |-> "absent"]
File(data) == [kind |-> "file", data |-> data]
Chunk(text, n) == [of |-> text, voice |-> VOICE, n |-> n]
Hole == [of |-> <<>>, voice |-> "", n |-> 0]

RECURSIVE Chunks(_, _)
Chunks(text, k) ==
    IF k = 0 THEN <<>> ELSE Append(Chunks(text, k - 1), Chunk(text, k))

RECURSIVE Holes(_)
Holes(k) == IF k <= 0 THEN <<>> ELSE <<Hole>> \o Holes(k - 1)

\* The whole audio of a text, and a file opened for writing that got the
\* first k pieces of it.
Audio(text) == File(Chunks(text, AudioChunks))
PartialAudio(text, k) == File(Chunks(text, k))
\* open(filename, "wb")
EmptyFile == File(<<>>)
\* A file left at the path by an earlier invocation.
StaleAudio == Audio(<<"o", "l", "d">>)

\* A handle writes piece n at its own offset, whatever the file holds now.
WriteAt(file, n, c) ==
    IF n <= Len(file.data)
    THEN File([file.data EXCEPT ![n] = c])
    ELSE File(file.data \o Holes(n - Len(file.data) - 1) \o <<c>>)

\* The handle writes the pieces from + 1 .. to of the audio of text.
RECURSIVE WriteRange(_, _, _, _)
WriteRange(file, text, from, to) ==
    IF from >= to THEN file
    ELSE WriteRange(WriteAt(file, from + 1, Chunk(text, from + 1)),
                    text, from + 1, to)

\* The handle of an invocation that has no file open; otherwise `got` is the
\* number of pieces audio.write received and `flushed` the number of them
\* that reached the file (the writer is buffered).
NoStream == [got |-> 0, flushed |-> 0]

\* What the speech service does to a call: "fail_early" raises before the
\* file is opened; "ok" delivers the whole stream; "fail_stream" raises an
\* Exception and "cancelled" a CancelledError at the await of line 112,
\* after `written` pieces.
TtsOutcomes ==
    {[kind |-> "ok", written |-> AudioChunks],
     [kind |-> "fail_early", written |-> 0]}
        \cup {[kind |-> k, written |-> n] :
                k \in {"fail_stream", "cancelled"}, n \in 0..AudioChunks}

\* generate_tts (lines 107-115) of an invocation that has the path to
\* itself. Yields whether it returned or raised, the returned value and the
\* file at the path afterwards. except Exception (line 114) does not catch
\* a CancelledError.
generate_tts(text, filename, outcome, file) ==
    LET cleaned_text == clean_text_for_tts(text)
        call(ret, raised) ==
            [svc |-> "tts", text |-> cleaned_text, voice |-> VOICE,
             filename |-> filename, ret |-> ret, raised |-> raised]
    IN  CASE outcome.kind = "ok" ->
               [status |-> "returned", ret |-> filename,
                file |-> Audio(cleaned_text), call |-> call(filename, FALSE)]
          [] outcome.kind = "fail_early" ->
               [status |-> "returned", ret |-> "", file |-> file,
                call |-> call("", FALSE)]
          [] outcome.kind = "fail_stream" ->
               [status |-> "returned", ret |-> "",
                file |-> PartialAudio(cleaned_text, outcome.written),
                call |-> call("", FALSE)]
          [] outcome.kind = "cancelled" ->
               [status |-> "raised", ret |-> "",
                file |-> PartialAudio(cleaned_text, outcome.written),
                call |-> call("", TRUE)]

\* Lines 194-198
AudioLink(environ, file_id) ==
    [bucket |-> Lookup(environ, BUCKET_ID), file |-> file_id,
     project |-> Lookup(environ, PROJECT_ID)]

ResultDataSanitized(l) ==
    [title |-> l.title, simplifiedText |-> clean_text_for_tts(l.simplified),
     tldr |-> l.tldr, audioUrl |-> l.audio_link]

\* Lines 201-206
ResultData(l) ==
    [title |-> l.title, simplifiedText |-> l.simplified, tldr |-> l.tldr,
     audioUrl |-> l.audio_link]

\* Id the table service gives a row created without one.
GeneratedRowId == <<"g", "e", "n">>

ServiceError(svc) == [type |-> "AppwriteException", msg |-> svc]

-----------------------------------------------------------------------------
(* Inputs *)

Origins ==
    {"http://localhost:8080", "https://readright.appwrite.network",
     "HTTP://LOCALHOST:8080"}

HeaderSets ==
    {o \cup k :
        o \in {{}} \cup {{<<"origin", v>>} : v \in Origins},
        k \in {{}, {<<"x-appwrite-key", "key">>}}}

BodyUrls == {<<>>, <<"u">>}
BodyTexts == {<<>>, <<"#", "t">>}
BodyDocids == {<<"d">>}

Bodies ==
    {u \cup t \cup d :
        u \in {{}} \cup {{<<"url", v>>} : v \in BodyUrls},
        t \in {{}} \cup {{<<"text", v>>} : v \in BodyTexts},
        d \in {{}} \cup {{<<"docid", v>>} : v \in BodyDocids}}

\* Bodies sent with a method other than OPTIONS, GET and POST (main treats
\* every such method as POST).
OtherBodies == {{}, {<<"text", <<"#", "t">>>>, <<"docid", <<"d">>>>}}

Queries == {{}, {<<"workerid", <<"w">>>>}}

Request(method, headers, query, body_is_object, body) ==
    [method |-> method, headers |-> headers, query |-> query,
     body_is_object |-> body_is_object, body |-> body]

\* The header set of the web client: an allowed origin and the execution key.
ClientHeaders ==
    {<<"origin", "http://localhost:8080">>, <<"x-appwrite-key", "key">>}

\* The bodies the web client sends: nothing, a text, a url.
ClientBodies ==
    {{}, {<<"text", <<"#", "t">>>>}, {<<"url", <<"u">>>>},
     {<<"text", <<"#", "t">>>>, <<"docid", <<"d">>>>}}

\* Every header set with the client's bodies, and every body with the
\* client's header set.
PostInputs ==
    {<<h, b>> : h \in HeaderSets, b \in ClientBodies}
        \cup {<<ClientHeaders, b>> : b \in Bodies}

Requests ==
    {Request("OPTIONS", h, {}, TRUE, {}) : h \in HeaderSets}
        \cup {Request("GET", h, q, TRUE, {}) : h \in HeaderSets, q \in Queries}
        \cup {Request("POST", i[1], {}, TRUE, i[2]) : i \in PostInputs}
        \cup {Request("POST", h, {}, FALSE, {}) : h \in HeaderSets}
        \cup {Request("PUT", h, {}, TRUE, b) :
                 h \in {{}, ClientHeaders}, b \in OtherBodies}

\* What a generate_content call of the handler may do.
LlmOutcomes ==
    {Raises, Returns(None), Returns(<<"\f", "", " ">>),
     Returns(<<"*", "a", "*", "\r", "", "\n">>), Returns(<<"#", " ", "b">>)}

\* What the generate_content call of generate_title may do.
TitleOutcomes == {Raises, Returns(None), Returns(<<" ", "T", "\n">>)}

ArticleObjects ==
    {{}, {<<"text", <<"f">>>>}, {<<"text", <<"f">>>>, <<"title", <<"T">>>>},
     {<<"text", <<>>>>, <<"title", <<"T">>>>}, {<<"title", <<"T">>>>}}

DiffbotData ==
    {{}, {<<"objects", <<>>>>}} \cup {{<<"objects", <<o>>>>} : o \in ArticleObjects}

HttpResponse(status, json_ok, data) ==
    [kind |-> "http", status |-> status, json_ok |-> json_ok, data |-> data]

\* What requests.get may do: raise, or return one of these responses.
DiffbotResponses ==
    {[kind |-> "exception", status |-> 0, json_ok |-> FALSE, data |-> {}]}
        \cup {HttpResponse(st, TRUE, d) : st \in {200, 404, 500}, d \in DiffbotData}
        \cup {HttpResponse(st, FALSE, {}) : st \in {200, 404, 500}}

-----------------------------------------------------------------------------
(* The handler as a state machine: one action per external call of main,   *)
(* each with the code that follows the call up to the next one.            *)

\* Leave the step with outcome step = [pc, log, resp].
Finish(p, step) ==
    /\ pc' = [pc EXCEPT ![p] = step.pc]
    /\ errlog' = [errlog EXCEPT ![p] = @ \o step.log]
    /\ resp' = [resp EXCEPT ![p] = step.resp]

Called(p, cs) == calls' = [calls EXCEPT ![p] = @ \o cs]

\* A request arrives; main runs up to its first external call.
MainEntry(p, r) ==
    /\ pc[p] = "idle"
    /\ req' = [req EXCEPT ![p] = r]
    /\ LET step == MainEntryStep(r, env)
           allowed_origin == get_origin_header(DictGet(r.headers, "origin", ""))
       IN  /\ Finish(p, step)
           /\ loc' = [loc EXCEPT
                  ![p].allowed_origin = allowed_origin,
                  ![p].article_text =
                      IF step.pc = "generate_title"
                      THEN DictGet(r.body, "text", None) ELSE None]
    /\ UNCHANGED <<env, tmpfile, bucket, rows, calls, stream, fb>>

\* Lines 146-156
GetExecution(p) ==
    /\ pc[p] = "get_execution"
    /\ LET workerid == DictGet(req[p].query, "workerid", None)
           origin == loc[p].allowed_origin
       IN  IF ~HasKey(env, FUNCTION_ID)
           THEN /\ Finish(p, Handle500(KeyError(FUNCTION_ID), origin))
                /\ UNCHANGED calls
           ELSE \E ok \in BOOLEAN :
                  /\ Called(p, <<[svc |-> "get_execution",
                                  function_id |-> Lookup(env, FUNCTION_ID),
                                  execution_id |-> workerid,
                                  raised |-> ~ok]>>)
                  /\ IF ok
                     THEN Finish(p, Return(Json(
                              [execution |-> workerid, state |-> "completed"],
                              CorsHeaders(origin))))
                     ELSE Finish(p, Handle500(ServiceError("get_execution"),
                                              origin))
    /\ UNCHANGED <<env, tmpfile, bucket, rows, req, loc, stream, fb>>

\* Lines 162-164 and 180
GenerateTitle(p) ==
    /\ pc[p] = "generate_title"
    /\ \E outcome \in TitleOutcomes :
         LET r == generate_title(DictGet(req[p].body, "text", None), outcome)
         IN  /\ Called(p, r.calls)
             /\ IF r.status = "raised"
                THEN /\ Finish(p, Handle500(r.error, loc[p].allowed_origin))
                     /\ UNCHANGED loc
                ELSE /\ Finish(p, Continue("simplify"))
                     /\ loc' = [loc EXCEPT
                            ![p].title = r.value,
                            ![p].docid = DictGet(req[p].body, "docid", None)]
    /\ UNCHANGED <<env, tmpfile, bucket, rows, req, stream, fb>>

\* Lines 165-172 and 180
FetchArticle(p) ==
    /\ pc[p] = "fetch_article"
    /\ \E response \in DiffbotResponses :
         LET url == DictGet(req[p].body, "url", None)
             fetched == fetch_article_text(response)
         IN  /\ Called(p, <<[svc |-> "diffbot", url |-> url,
                              response |-> response,
                              returned |-> fetched]>>)
             /\ IF ~Truthy(fetched[1])
                THEN /\ Finish(p, Return(Send(<<>>, 404,
                                    CorsHeaders(loc[p].allowed_origin))))
                     /\ loc' = [loc EXCEPT
                            ![p].article_text = fetched[1],
                            ![p].title = fetched[2]]
                ELSE /\ Finish(p, Continue("simplify"))
                     /\ loc' = [loc EXCEPT
                            ![p].article_text = fetched[1],
                            ![p].title = fetched[2],
                            ![p].docid = DictGet(req[p].body, "docid", None)]
    /\ UNCHANGED <<env, tmpfile, bucket, rows, req, stream, fb>>

\* Line 183
Simplify(p) ==
    /\ pc[p] = "simplify"
    /\ \E out \in [1..Len(models) -> LlmOutcomes] :
         LET r == generate_simplified_text(loc[p].article_text, out)
         IN  /\ Called(p, r.calls)
             /\ IF r.status = "raised"
                THEN /\ Finish(p, Handle500(r.error, loc[p].allowed_origin))
                     /\ UNCHANGED loc
                ELSE /\ Finish(p, Continue("tldr"))
                     /\ loc' = [loc EXCEPT ![p].simplified = r.value]
    /\ UNCHANGED <<env, tmpfile, bucket, rows, req, stream, fb>>

TldrContinuesOnFailure(p) ==
    /\ pc[p] = "tldr"
    /\ \E out \in [1..Len(models) -> LlmOutcomes] :
         LET r == generate_tldr(loc[p].article_text, out)
         IN  /\ Called(p, r.calls)
             /\ Finish(p, Continue("tts"))
             /\ IF r.status = "raised"
                THEN UNCHANGED loc
                ELSE loc' = [loc EXCEPT ![p].tldr = r.value]
    /\ UNCHANGED <<env, tmpfile, bucket, rows, req, stream, fb>>

\* Line 184
Tldr(p) ==
    /\ pc[p] = "tldr"
    /\ \E out \in [1..Len(models) -> LlmOutcomes] :
         LET r == generate_tldr(loc[p].article_text, out)
         IN  /\ Called(p, r.calls)
             /\ IF r.status = "raised"
                THEN /\ Finish(p, Handle500(r.error, loc[p].allowed_origin))
                     /\ UNCHANGED loc
                ELSE /\ Finish(p, Continue("tts"))
                     /\ loc' = [loc EXCEPT ![p].tldr = r.value]
    /\ UNCHANGED <<env, tmpfile, bucket, rows, req, stream, fb>>

\* A CancelledError leaves main: it passes except Exception of line 220, so
\* nothing is logged and no response is returned.
Cancelled == [pc |-> "cancelled", log |-> <<>>, resp |-> NoResponse]

\* Line 185 up to the await of line 112: the call either fails before the
\* file is opened, or opens /tmp/audio.mp3 for writing and suspends on the
\* audio stream. Other invocations run while this one is suspended.
TtsBegin(p) ==
    /\ pc[p] = "tts"
    /\ \/ LET r == generate_tts(loc[p].simplified, AUDIO_PATH,
                                [kind |-> "fail_early", written |-> 0],
                                tmpfile)
          IN  /\ Called(p, <<r.call>>)
              /\ tmpfile' = r.file
              /\ Finish(p, Continue("create_file"))
              /\ UNCHANGED stream
       \/ /\ tmpfile' = EmptyFile
          /\ stream' = [stream EXCEPT ![p] = NoStream]
          /\ Finish(p, Continue("tts_save"))
          /\ UNCHANGED calls
    /\ UNCHANGED <<env, bucket, rows, req, loc, fb>>

\* The await of line 112 delivers the next piece of audio: audio.write
\* takes it, and the buffered writer passes on none, some or all of what it
\* holds to the file. The invocation stays suspended.
TtsWrite(p) ==
    /\ pc[p] = "tts_save"
    /\ stream[p].got < AudioChunks
    /\ \E to \in stream[p].flushed..(stream[p].got + 1) :
         /\ tmpfile' = WriteRange(tmpfile, clean_text_for_tts(loc[p].simplified),
                                  stream[p].flushed, to)
         /\ stream' = [stream EXCEPT ![p] = [got |-> stream[p].got + 1,
                                             flushed |-> to]]
    /\ UNCHANGED <<env, bucket, rows, pc, req, loc, resp, calls, errlog, fb>>

TtsFailureFailsRequest(p) ==
    /\ pc[p] = "tts_save"
    /\ \E kind \in {"ok", "fail_stream", "cancelled"} :
         LET r == generate_tts(loc[p].simplified, AUDIO_PATH,
                               [kind |-> kind, written |-> stream[p].got],
                               tmpfile)
         IN  /\ kind = "ok" => stream[p].got = AudioChunks
             /\ Called(p, <<r.call>>)
             /\ IF r.status = "raised" THEN Finish(p, Cancelled)
                ELSE IF r.ret = ""
                THEN Finish(p, Handle500(ServiceError("tts"),
                                         loc[p].allowed_origin))
                ELSE Finish(p, Continue("create_file"))
    /\ tmpfile' = WriteRange(tmpfile, clean_text_for_tts(loc[p].simplified),
                             stream[p].flushed, stream[p].got)
    /\ stream' = [stream EXCEPT ![p] = NoStream]
    /\ UNCHANGED <<env, bucket, rows, req, loc, fb>>

\* The await of line 112 ends: the stream is complete, or it raises. The
\* with block of save closes the file, which writes out what the writer
\* still holds. Then generate_tts returns the filename, or "" after an
\* Exception (lines 113-115), and main drops the value and goes on; a
\* CancelledError leaves generate_tts and main.
TtsEnd(p) ==
    /\ pc[p] = "tts_save"
    /\ \E kind \in {"ok", "fail_stream", "cancelled"} :
         LET r == generate_tts(loc[p].simplified, AUDIO_PATH,
                               [kind |-> kind, written |-> stream[p].got],
                               tmpfile)
         IN  /\ kind = "ok" => stream[p].got = AudioChunks
             /\ Called(p, <<r.call>>)
             /\ IF r.status = "raised" THEN Finish(p, Cancelled)
                ELSE Finish(p, Continue("create_file"))
    /\ tmpfile' = WriteRange(tmpfile, clean_text_for_tts(loc[p].simplified),
                             stream[p].flushed, stream[p].got)
    /\ stream' = [stream EXCEPT ![p] = NoStream]
    /\ UNCHANGED <<env, bucket, rows, req, loc, fb>>

CreateFileIgnoresFailure(p) ==
    /\ pc[p] = "create_file"
    /\ LET origin == loc[p].allowed_origin
           call(ok) == [svc |-> "create_file", file_id |-> "unique()",
                        path |-> AUDIO_PATH, raised |-> ~ok]
       IN  IF ~HasKey(env, BUCKET_ID)
           THEN /\ Finish(p, Handle500(KeyError(BUCKET_ID), origin))
                /\ UNCHANGED <<calls, bucket, loc>>
           ELSE \E accepted \in BOOLEAN :
                  LET ok == accepted /\ tmpfile # NoFile
                      id == Cardinality(bucket) + 1
                  IN  /\ Called(p, <<call(ok)>>)
                      /\ Finish(p, Continue("create_row"))
                      /\ IF ok
                         THEN /\ bucket' = bucket \cup
                                     {[id |-> id, content |-> tmpfile]}
                              /\ loc' = [loc EXCEPT
                                     ![p].audio_link = AudioLink(env, id)]
                         ELSE UNCHANGED <<bucket, loc>>
    /\ UNCHANGED <<env, tmpfile, rows, req, stream, fb>>

\* Lines 188-198
CreateFile(p) ==
    /\ pc[p] = "create_file"
    /\ LET origin == loc[p].allowed_origin
           call(ok) == [svc |-> "create_file", file_id |-> "unique()",
                        path |-> AUDIO_PATH, raised |-> ~ok]
       IN  IF ~HasKey(env, BUCKET_ID)
           THEN /\ Finish(p, Handle500(KeyError(BUCKET_ID), origin))
                /\ UNCHANGED <<calls, bucket, loc>>
           ELSE \E accepted \in BOOLEAN :
                  LET ok == accepted /\ tmpfile # NoFile
                      id == Cardinality(bucket) + 1
                  IN  /\ Called(p, <<call(ok)>>)
                      /\ IF ok
                         THEN /\ bucket' = bucket \cup
                                     {[id |-> id, content |-> tmpfile]}
                              /\ loc' = [loc EXCEPT
                                     ![p].audio_link = AudioLink(env, id)]
                              /\ Finish(p, Continue("create_row"))
                         ELSE /\ Finish(p, Handle500(
                                     ServiceError("create_file"), origin))
                              /\ UNCHANGED <<bucket, loc>>
    /\ UNCHANGED <<env, tmpfile, rows, req, stream, fb>>

RowIds == {r.id : r \in rows}

CreateRowRollsBack(p) ==
    /\ pc[p] = "create_row"
    /\ LET origin == loc[p].allowed_origin
           docid == loc[p].docid
           result_data == ResultData(loc[p])
           call(ok) == [svc |-> "create_row", row_id |-> docid,
                        data |-> result_data, raised |-> ~ok]
           undo == [svc |-> "delete_file", file |-> loc[p].audio_link.file,
                    raised |-> FALSE]
       IN  IF ~HasKey(env, DATABASE_ID)
           THEN /\ Finish(p, Handle500(KeyError(DATABASE_ID), origin))
                /\ UNCHANGED <<calls, rows, bucket>>
           ELSE IF ~HasKey(env, TABLE_ID)
           THEN /\ Finish(p, Handle500(KeyError(TABLE_ID), origin))
                /\ UNCHANGED <<calls, rows, bucket>>
           ELSE \E accepted \in BOOLEAN :
                  LET id == IF docid = None THEN GeneratedRowId ELSE docid
                      ok == accepted /\ id \notin RowIds
                  IN  IF ok
                      THEN /\ Called(p, <<call(ok)>>)
                           /\ rows' = rows \cup
                                  {[id |-> id, data |-> result_data]}
                           /\ Finish(p, Return(Json([id |-> Str(id)],
                                                    CorsHeaders(origin))))
                           /\ UNCHANGED bucket
                      ELSE /\ Called(p, <<call(ok), undo>>)
                           /\ bucket' = {f \in bucket :
                                            f.id # loc[p].audio_link.file}
                           /\ Finish(p, Handle500(
                                  ServiceError("create_row"), origin))
                           /\ UNCHANGED rows
    /\ UNCHANGED <<env, tmpfile, req, loc, stream, fb>>

\* Lines 208-218
CreateRow(p) ==
    /\ pc[p] = "create_row"
    /\ LET origin == loc[p].allowed_origin
           docid == loc[p].docid
           result_data == ResultData(loc[p])
           call(ok) == [svc |-> "create_row", row_id |-> docid,
                        data |-> result_data, raised |-> ~ok]
       IN  IF ~HasKey(env, DATABASE_ID)
           THEN /\ Finish(p, Handle500(KeyError(DATABASE_ID), origin))
                /\ UNCHANGED <<calls, rows>>
           ELSE IF ~HasKey(env, TABLE_ID)
           THEN /\ Finish(p, Handle500(KeyError(TABLE_ID), origin))
                /\ UNCHANGED <<calls, rows>>
           ELSE \E accepted \in BOOLEAN :
                  LET id == IF docid = None THEN GeneratedRowId ELSE docid
                      ok == accepted /\ id \notin RowIds
                  IN  /\ Called(p, <<call(ok)>>)
                      /\ IF ok
                         THEN /\ rows' = rows \cup
                                    {[id |-> id, data |-> result_data]}
                              /\ Finish(p, Return(Json([id |-> Str(id)],
                                                       CorsHeaders(origin))))
                         ELSE /\ Finish(p, Handle500(
                                     ServiceError("create_row"), origin))
                              /\ UNCHANGED rows
    /\ UNCHANGED <<env, tmpfile, bucket, req, loc, stream, fb>>

-----------------------------------------------------------------------------
(* Specifications *)

Init ==
    /\ env \in Environs
    /\ tmpfile \in {NoFile, StaleAudio}
    /\ bucket = {}
    /\ rows = {}
    /\ pc = [p \in Procs |-> "idle"]
    /\ req = [p \in Procs |-> NoRequest]
    /\ loc = [p \in Procs |-> LocInit]
    /\ resp = [p \in Procs |-> NoResponse]
    /\ calls = [p \in Procs |-> <<>>]
    /\ errlog = [p \in Procs |-> <<>>]
    /\ stream = [p \in Procs |-> NoStream]
    /\ fb = FbIdle

\* One invocation of the handler, on any request.
Next ==
    \/ \E r \in Requests : MainEntry(1, r)
    \/ GetExecution(1)
    \/ GenerateTitle(1)
    \/ FetchArticle(1)
    \/ Simplify(1)
    \/ Tldr(1)
    \/ TtsBegin(1)
    \/ TtsWrite(1)
    \/ TtsEnd(1)
    \/ CreateFile(1)
    \/ CreateRow(1)

Spec == Init /\ [][Next]_vars

\* generate_with_fallback alone, against every stubbed client.
InitFallback ==
    /\ env = FullEnv
    /\ tmpfile = NoFile
    /\ bucket = {}
    /\ rows = {}
    /\ pc = [p \in Procs |-> "idle"]
    /\ req = [p \in Procs |-> NoRequest]
    /\ loc = [p \in Procs |-> LocInit]
    /\ resp = [p \in Procs |-> NoResponse]
    /\ calls = [p \in Procs |-> <<>>]
    /\ errlog = [p \in Procs |-> <<>>]
    /\ stream = [p \in Procs |-> NoStream]
    /\ fb \in {FallbackCall(out) : out \in [1..Len(models) -> FbOutcomes]}

NextFallback == FallbackIterate \/ FallbackExhaust

SpecFallback == InitFallback /\ [][NextFallback]_vars

\* Two POST invocations in one execution environment, scheduled as
\* coroutines of one event loop: main is a coroutine whose only await is the
\* audio stream of generate_tts (lines 112, 185), so an invocation runs
\* without interruption from its entry to that await, from one piece of the
\* stream to the next, and from the end of the stream to its response.
SharedRequests ==
    {Request("POST", {<<"origin", "http://localhost:8080">>,
                      <<"x-appwrite-key", "key">>}, {}, TRUE, b) :
        b \in {{<<"text", <<"#", "t">>>>, <<"docid", <<"d">>>>},
               {<<"text", <<"#", "t">>>>}}}

\* The generation service of these runs: the primary model answers every
\* call, with " T\n" for the title and "*a*" for the summary; the simplified
\* text is any text the model may return.
PrimaryModelAnswers ==
    \A p \in Procs :
        /\ \A k \in 1..Len(calls[p]) :
              calls[p][k].svc = "llm" => calls[p][k].model = models[1]
        /\ errlog[p] = <<>>
              \/ \E k \in 1..Len(calls[p]) : calls[p][k].svc = "tts"
        /\ loc[p].title \in {None, <<" ", "T", "\n">>}
        /\ loc[p].tldr \in {None, <<"*", "a", "*">>}

\* Invocation p may take a step: no other invocation is between two awaits.
Scheduled(p) ==
    \A q \in Procs \ {p} : pc[q] \in {"idle", "tts_save", "done", "cancelled"}

InitShared ==
    /\ env = FullEnv
    /\ tmpfile = NoFile
    /\ bucket = {}
    /\ rows = {}
    /\ pc = [p \in Procs |-> "idle"]
    /\ req = [p \in Procs |-> NoRequest]
    /\ loc = [p \in Procs |-> LocInit]
    /\ resp = [p \in Procs |-> NoResponse]
    /\ calls = [p \in Procs |-> <<>>]
    /\ errlog = [p \in Procs |-> <<>>]
    /\ stream = [p \in Procs |-> NoStream]
    /\ fb = FbIdle

NextShared ==
    \/ \E p \in Procs : \E r \in SharedRequests : Scheduled(p) /\ MainEntry(p, r)
    \/ \E p \in Procs : Scheduled(p) /\ GenerateTitle(p) /\ PrimaryModelAnswers'
    \/ \E p \in Procs : Scheduled(p) /\ Simplify(p) /\ PrimaryModelAnswers'
    \/ \E p \in Procs : Scheduled(p) /\ Tldr(p) /\ PrimaryModelAnswers'
    \/ \E p \in Procs : Scheduled(p) /\ TtsBegin(p)
    \/ \E p \in Procs : Scheduled(p) /\ TtsWrite(p)
    \/ \E p \in Procs : Scheduled(p) /\ TtsEnd(p)
    \/ \E p \in Procs : Scheduled(p) /\ CreateFile(p)
    \/ \E p \in Procs : Scheduled(p) /\ CreateRow(p)

SpecShared == InitShared /\ [][NextShared]_vars

\* fetch_article_text alone, against everything requests.get may do.
FetchStatuses == {200, 201, 300, 400, 404, 500, 503}

FetchResponses ==
    {[kind |-> "exception", status |-> 0, json_ok |-> FALSE, data |-> {}]}
        \cup {HttpResponse(st, TRUE, d) : st \in FetchStatuses, d \in DiffbotData}
        \cup {HttpResponse(st, FALSE, {}) : st \in FetchStatuses}

FetchCall(response) ==
    [active |-> TRUE, response |-> response, status |-> "called",
     returned |-> <<None, None>>]

FetchReturn ==
    /\ fb.active
    /\ fb.status = "called"
    /\ fb' = [fb EXCEPT !.status = "returned",
                        !.returned = fetch_article_text(fb.response)]
    /\ UNCHANGED mainVars

InitFetch ==
    /\ env = FullEnv
    /\ tmpfile = NoFile
    /\ bucket = {}
    /\ rows = {}
    /\ pc = [p \in Procs |-> "idle"]
    /\ req = [p \in Procs |-> NoRequest]
    /\ loc = [p \in Procs |-> LocInit]
    /\ resp = [p \in Procs |-> NoResponse]
    /\ calls = [p \in Procs |-> <<>>]
    /\ errlog = [p \in Procs |-> <<>>]
    /\ stream = [p \in Procs |-> NoStream]
    /\ fb \in {FetchCall(r) : r \in FetchResponses}

NextFetch == FetchReturn

SpecFetch == InitFetch /\ [][NextFetch]_vars

-----------------------------------------------------------------------------
(* Properties of generate_with_fallback (checked under SpecFallback) *)

\* The stubbed call returns text that is non-empty once trimmed.
NonEmptyText(o) ==
    o.kind = "result" /\ o.text # None /\ Strip(o.text) # <<>>

\* The stubbed call returns empty or whitespace-only text.
BlankText(o) ==
    o.kind = "result" /\ o.text # None /\ Strip(o.text) = <<>>

ModelIdx == 1..Len(models)

\* The function has returned or raised.
FbEnded == fb.active /\ fb.st.status # "loop"

\* C1: the models are invoked in the order gemini-2.5-flash, gemini-2.0-flash,
\* gemini-1.5-flash, each at most once, and the first invocation that returns
\* non-empty trimmed text ends the function with that text: no later model
\* is invoked.
C1_FallbackOrderAndShortCircuit ==
    fb.active =>
        LET n == Len(fb.st.calls)
        IN  /\ n <= Len(models)
            /\ \A k \in 1..n : fb.st.calls[k].model = models[k]
            /\ \A k \in 1..n :
                 NonEmptyText(fb.out[k]) =>
                    /\ n = k
                    /\ fb.st.status = "returned"
                    /\ fb.st.value = Strip(fb.out[k].text)

\* The first model returned non-empty text while the second would have too,
\* and the function has returned after one call.
C1_Witness ==
    /\ FbEnded
    /\ NonEmptyText(fb.out[1])
    /\ NonEmptyText(fb.out[2])
    /\ fb.out[2].text # fb.out[1].text
    /\ Len(fb.st.calls) = 1
    /\ fb.st.status = "returned"

\* C2: whenever at least one model returns non-empty text, the function
\* returns (does not raise) the trimmed text of the first such model in list
\* order, whatever earlier models did (raise, no text, blank text), and
\* carries no error.
C2_FirstNonEmptyWins ==
    (FbEnded /\ \E k \in ModelIdx : NonEmptyText(fb.out[k])) =>
        LET first == CHOOSE k \in ModelIdx :
                        /\ NonEmptyText(fb.out[k])
                        /\ \A j \in 1..(k - 1) : ~NonEmptyText(fb.out[j])
        IN  /\ fb.st.status = "returned"
            /\ fb.st.value = Strip(fb.out[first].text)
            /\ fb.st.error = NoError

\* The first model raised, the second returned padded text, and the function
\* returned the trimmed text.
C2_Witness ==
    /\ FbEnded
    /\ fb.out[1].kind = "raise"
    /\ NonEmptyText(fb.out[2])
    /\ fb.out[2].text # Strip(fb.out[2].text)
    /\ fb.st.status = "returned"

\* C3: if all three models raise, the function fails with the exhaustion
\* error, whose chained cause is the exception of the last model in the list.
C3_AllRaiseChainsLastError ==
    (FbEnded /\ \A k \in ModelIdx : fb.out[k].kind = "raise") =>
        /\ fb.st.status = "raised"
        /\ fb.st.error.type = "RuntimeError"
        /\ fb.st.error.msg = "All Gemini models failed"
        /\ fb.st.error.cause = ApiError(models[Len(models)])

C3_Witness ==
    /\ FbEnded
    /\ \A k \in ModelIdx : fb.out[k].kind = "raise"
    /\ Len(fb.st.calls) = Len(models)
    /\ fb.st.status = "raised"

\* The exception the first n stubbed calls leave recorded: that of the last
\* call among them that raised or had no text; blank text records nothing.
RECURSIVE RecordedError(_, _)
RecordedError(out, n) ==
    IF n = 0 THEN NoError
    ELSE IF out[n].kind = "raise" THEN ApiError(models[n])
    ELSE IF out[n].text = None THEN AttributeError(models[n])
    ELSE RecordedError(out, n - 1)

\* C4: a call that returns only whitespace or empty text is skipped without
\* touching the recorded last error, and when all three models return such
\* text the function fails with the exhaustion error and no chained cause.
C4_BlankTextSkippedWithoutError ==
    fb.active =>
        /\ fb.st.last_error = RecordedError(fb.out, Len(fb.st.calls))
        /\ (fb.st.status = "loop" /\ Len(fb.st.calls) >= 1
                /\ BlankText(fb.out[Len(fb.st.calls)]))
            => fb.st.i = Len(fb.st.calls) + 1
        /\ (FbEnded /\ \A k \in ModelIdx : BlankText(fb.out[k])) =>
              /\ fb.st.status = "raised"
              /\ fb.st.error.type = "RuntimeError"
              /\ fb.st.error.cause = NoError

\* All three models returned blank text, one of them non-empty whitespace,
\* and the function raised after calling each.
C4_Witness ==
    /\ FbEnded
    /\ \A k \in ModelIdx : BlankText(fb.out[k])
    /\ \E k \in ModelIdx : fb.out[k].text # <<>>
    /\ Len(fb.st.calls) = Len(models)
    /\ fb.st.status = "raised"

-----------------------------------------------------------------------------
(* Properties of the handler (checked under Spec) *)

IsPost(p) == req[p].method = "POST" /\ req[p].body_is_object

BodyUrl(p)  == DictGet(req[p].body, "url", None)
BodyText(p) == DictGet(req[p].body, "text", None)

\* The client could be set up: project id configured, key header sent.
SetupOk(p) ==
    HasKey(env, PROJECT_ID) /\ HasKey(req[p].headers, "x-appwrite-key")

Done(p) == pc[p] = "done"

\* Positions in the call log of p of the calls to service svc.
CallsTo(p, svc) == {k \in 1..Len(calls[p]) : calls[p][k].svc = svc}

\* Positions of the LLM calls made with the given prompt template.
LlmCallsFor(p, template) ==
    {k \in CallsTo(p, "llm") : calls[p][k].prompt.template = template}

EmptyBody == [kind |-> "text", text |-> <<>>]

\* No call of the generation pipeline or of persistence was made.
NoPipelineCalls(p) ==
    /\ CallsTo(p, "llm") = {}
    /\ CallsTo(p, "tts") = {}
    /\ CallsTo(p, "create_file") = {}
    /\ CallsTo(p, "create_row") = {}

\* C5: title generation has no fallback. Once the handler has passed the
\* title step of a POST with text, exactly one LLM call was made with the
\* title prompt, on gemini-2.5-flash; no title call ever goes to another
\* model; and if that call raised (no title was obtained) the request has
\* ended with 500 and that call is the only external call made.
C5_TitleUsesPrimaryOnly ==
    \A p \in Procs :
        /\ \A k \in LlmCallsFor(p, TITLE_TEMPLATE) :
               calls[p][k].model = "gemini-2.5-flash"
        /\ (IsPost(p) /\ Truthy(BodyText(p)) /\ SetupOk(p)
                /\ pc[p] \notin {"idle", "generate_title"}) =>
              /\ LlmCallsFor(p, TITLE_TEMPLATE) = {1}
              /\ loc[p].title = None =>
                    /\ Done(p)
                    /\ resp[p].status = 500
                    /\ resp[p].body = EmptyBody
                    /\ Len(calls[p]) = 1

\* A POST with text whose title call raised.
C5_Witness ==
    /\ IsPost(1) /\ Truthy(BodyText(1))
    /\ Done(1)
    /\ loc[1].title = None
    /\ LlmCallsFor(1, TITLE_TEMPLATE) = {1}
    /\ resp[1].status = 500

\* The Access-Control-Allow-Origin value the request is entitled to.
ExpectedAllowOrigin(r) ==
    IF /\ HasKey(r.headers, "origin")
       /\ Lookup(r.headers, "origin") \in
             {"http://localhost:8080", "https://readright.appwrite.network"}
    THEN Lookup(r.headers, "origin")
    ELSE ""

\* C6: every response main returns carries exactly one
\* Access-Control-Allow-Origin header, whose value is the request's Origin
\* when that is one of the two allow-listed strings and "" otherwise (also
\* when there is no Origin header).
C6_EveryResponseHasCorsOrigin ==
    \A p \in Procs :
        resp[p] # NoResponse =>
            /\ resp[p].status \in {200, 400, 404, 500}
            /\ {h \in resp[p].headers : h[1] = ACAO}
                  = {<<ACAO, ExpectedAllowOrigin(req[p])>>}

\* A failed request from an origin that differs from an allowed one only in
\* case: the 500 response carries the empty value.
C6_Witness ==
    /\ resp[1] # NoResponse
    /\ resp[1].status = 500
    /\ HasKey(req[1].headers, "origin")
    /\ Lookup(req[1].headers, "origin") = "HTTP://LOCALHOST:8080"
    /\ <<ACAO, "">> \in resp[1].headers

\* The POST body has neither a url nor a text (absent or empty).
NeitherUrlNorText(p) ==
    IsPost(p) /\ ~Truthy(BodyUrl(p)) /\ ~Truthy(BodyText(p))

\* C7 as stated: every POST with neither url nor text is answered 400 with
\* an empty body and no external call.
C7_Original ==
    \A p \in Procs :
        (Done(p) /\ NeitherUrlNorText(p)) =>
            /\ resp[p].status = 400
            /\ resp[p].body = EmptyBody
            /\ calls[p] = <<>>

\* C7 (amended): a POST with neither url nor text is answered with an empty
\* body and no external call at all; the status is 400 when the client
\* could be set up (project id configured and x-appwrite-key sent) and 500
\* when it could not, since the client is set up before the body is read.
C7_NeitherGives400AfterSetup ==
    \A p \in Procs :
        (pc[p] # "idle" /\ NeitherUrlNorText(p)) =>
            /\ Done(p)
            /\ resp[p].status = (IF SetupOk(p) THEN 400 ELSE 500)
            /\ resp[p].body = EmptyBody
            /\ calls[p] = <<>>

\* An empty JSON body, and a body with an empty text and an empty url,
\* answered 400.
C7_Witness ==
    /\ Done(1) /\ IsPost(1)
    /\ HasKey(req[1].body, "text") /\ HasKey(req[1].body, "url")
    /\ NeitherUrlNorText(1)
    /\ resp[1].status = 400

\* The extraction call gave no article text: it raised (network error,
\* timeout), had an error status (not-found included), had no parsable body,
\* no article object, or an article object without text.
ExtractionEmpty(response) ==
    \/ response.kind = "exception"
    \/ response.status >= 400
    \/ ~response.json_ok
    \/ LET objects == DictGet(response.data, "objects", <<{}>>)
       IN  \/ objects = <<>>
           \/ DictGet(objects[1], "text", <<>>) = <<>>

\* C8: a POST with a url and no text whose extraction call gave no article
\* text is answered 404 with an empty body, and the extraction call is the
\* only external call made for it.
C8_EmptyExtractionGives404 ==
    \A p \in Procs :
        (IsPost(p) /\ CallsTo(p, "diffbot") # {}
              /\ ExtractionEmpty(calls[p][1].response)) =>
            /\ calls[p][1].url = BodyUrl(p)
            /\ ~Truthy(BodyText(p))
            /\ Done(p)
            /\ resp[p] = Send(<<>>, 404,
                              CorsHeaders(ExpectedAllowOrigin(req[p])))
            /\ Len(calls[p]) = 1
            /\ NoPipelineCalls(p)

\* The extraction API answered with status 404 and a body that holds article
\* text; the request ended with 404.
C8_Witness ==
    /\ IsPost(1) /\ Done(1)
    /\ CallsTo(1, "diffbot") = {1}
    /\ calls[1][1].response.kind = "http"
    /\ calls[1][1].response.status = 404
    /\ calls[1][1].response.json_ok
    /\ LET objects == DictGet(calls[1][1].response.data, "objects", <<{}>>)
       IN  objects # <<>> /\ DictGet(objects[1], "text", <<>>) # <<>>
    /\ resp[1].status = 404

\* C9: for a POST with a non-empty text, with or without a url, the article
\* fetch is never invoked, the title comes from an LLM call whose prompt
\* holds that text, and the simplify and the summarize prompts hold that
\* same text.
C9_TextTakesPrecedenceOverUrl ==
    \A p \in Procs :
        (IsPost(p) /\ Truthy(BodyText(p))) =>
            /\ CallsTo(p, "diffbot") = {}
            /\ \A k \in CallsTo(p, "llm") :
                   calls[p][k].prompt.text = BodyText(p)
            /\ loc[p].title # None =>
                   /\ calls[p][1] =
                        LlmCall("gemini-2.5-flash",
                                Prompt(TITLE_TEMPLATE, BodyText(p)),
                                ThinkingConfig)
                   /\ loc[p].article_text = BodyText(p)
            /\ loc[p].simplified # None =>
                   LlmCallsFor(p, SIMPLIFY_TEMPLATE) # {}
            /\ loc[p].tldr # None =>
                   LlmCallsFor(p, TLDR_TEMPLATE) # {}

\* A POST with both a text and a url, past the summarize step.
C9_Witness ==
    /\ IsPost(1)
    /\ Truthy(BodyText(1)) /\ Truthy(BodyUrl(1))
    /\ loc[1].title # None
    /\ loc[1].tldr # None
    /\ LlmCallsFor(1, TLDR_TEMPLATE) # {}

\* The POST body has both a url and a text.
BothUrlAndText(p) == IsPost(p) /\ Truthy(BodyUrl(p)) /\ Truthy(BodyText(p))

\* C10 as stated: a POST with both a url and a text, like one with neither,
\* makes no LLM call, no upload and no row.
C10_Original ==
    \A p \in Procs :
        (BothUrlAndText(p) \/ NeitherUrlNorText(p)) => NoPipelineCalls(p)

\* C10 (amended): a POST with neither url nor text never enters the
\* generation pipeline, but a POST with both is not rejected: once the
\* client is set up it enters the pipeline as a text request (title call
\* first), the url is never fetched, and it can end with a created row.
C10_BothIsProcessedAsText ==
    \A p \in Procs :
        /\ NeitherUrlNorText(p) => NoPipelineCalls(p)
        /\ (BothUrlAndText(p) /\ SetupOk(p) /\ pc[p] # "idle") =>
              /\ CallsTo(p, "diffbot") = {}
              /\ pc[p] = "generate_title" \/ CallsTo(p, "llm") # {}
              /\ resp[p] # NoResponse => resp[p].status \in {200, 500}

\* A POST with both a url and a text answered 200 with its row created.
C10_Witness ==
    /\ BothUrlAndText(1)
    /\ Done(1)
    /\ resp[1].status = 200
    /\ CallsTo(1, "create_row") # {}
    /\ rows # {}

-----------------------------------------------------------------------------
(* Error handling and persistence *)

\* The request takes the POST branch of main (any method but OPTIONS, GET).
PostBranch(p) == req[p].method \notin {"none", "OPTIONS", "GET"}

LastCall(p) == calls[p][Len(calls[p])]

\* Positions of the calls of p that raised, among the Appwrite calls.
RaisedCalls(p) ==
    {k \in CallsTo(p, "get_execution") \cup CallsTo(p, "create_file")
            \cup CallsTo(p, "create_row") : calls[p][k].raised}

\* Some step of the finished invocation p failed: client setup, reading the
\* body, a configuration lookup, the title call or a fallback loop (the last
\* call made is an LLM call), the upload, the row creation or the
\* execution-status lookup.
StepFailed(p) ==
    \/ req[p].method # "OPTIONS" /\ ~SetupOk(p)
    \/ PostBranch(p) /\ ~req[p].body_is_object
    \/ req[p].method = "GET" /\ ~HasKey(env, FUNCTION_ID)
    \/ RaisedCalls(p) # {}
    \/ /\ calls[p] # <<>>
       /\ \/ LastCall(p).svc = "llm"
          \/ LastCall(p).svc = "tts" /\ ~HasKey(env, BUCKET_ID)
          \/ /\ LastCall(p).svc = "create_file"
             /\ ~HasKey(env, DATABASE_ID) \/ ~HasKey(env, TABLE_ID)

\* main has ended: it returned a response, or an exception left it.
Ended(p) == pc[p] \in {"done", "cancelled"}

\* What main owes for a step that failed: 500 with an empty body and only
\* the CORS header after logging exactly one error, and no logged error
\* without a failed step.
FailureGives500(p) ==
    /\ resp[p] # NoResponse
    /\ (resp[p].status = 500) = (errlog[p] # <<>>)
    /\ (resp[p].status = 500) = StepFailed(p)
    /\ StepFailed(p) =>
          /\ resp[p] = Send(<<>>, 500,
                            CorsHeaders(ExpectedAllowOrigin(req[p])))
          /\ Len(errlog[p]) = 1

\* C11 as stated: main never lets an exception escape. Every invocation
\* that has ended has returned a response; when a step failed (missing key
\* header or configuration value, title or exhaustion error, failed upload,
\* row creation or status lookup) the response is 500 with an empty body
\* and only the CORS header, and exactly one error was logged; no error is
\* logged otherwise.
C11_Original ==
    \A p \in Procs : Ended(p) => FailureGives500(p)

\* C11, amended: main lets no Exception escape: every invocation that
\* returned did so as stated above. The one exception that leaves main is a
\* CancelledError raised at the await of the audio stream: the invocation
\* then ends right after its speech-synthesis call, without a response and
\* without a logged error, and makes no upload and no row.
C11_EveryFailureGives500 ==
    \A p \in Procs :
        /\ Done(p) => FailureGives500(p)
        /\ pc[p] = "cancelled" =>
              /\ resp[p] = NoResponse
              /\ errlog[p] = <<>>
              /\ LastCall(p).svc = "tts" /\ LastCall(p).raised
              /\ CallsTo(p, "create_file") = {}
              /\ CallsTo(p, "create_row") = {}
        /\ \A k \in CallsTo(p, "tts") :
              calls[p][k].raised => pc[p] = "cancelled" /\ k = Len(calls[p])

\* A request with another method than POST whose summarize loop ran out of
\* models, answered 500 with the caller's allowed origin.
C11_Witness ==
    /\ Done(1)
    /\ req[1].method = "PUT"
    /\ Len(calls[1]) >= 5
    /\ LastCall(1).svc = "llm"
    /\ LastCall(1).prompt.template = TLDR_TEMPLATE
    /\ LastCall(1).model = "gemini-1.5-flash"
    /\ resp[1].status = 500
    /\ <<ACAO, "http://localhost:8080">> \in resp[1].headers
    /\ errlog[1] = <<<<"All Gemini models failed">>>>

-----------------------------------------------------------------------------

RowFields == {"title", "simplifiedText", "tldr", "audioUrl"}

\* C12: success is all-or-nothing. A request of the POST branch is answered
\* 200 only if its last two calls are the upload and then the row creation,
\* both successful; the body is {"id": <id>} with <id> the key of a row in
\* the table that holds exactly title, simplifiedText, tldr and audioUrl, the
\* audioUrl naming a stored file; and the row creation is never called
\* unless the call before it is a successful upload.
C12_SuccessNeedsUploadThenRow ==
    \A p \in Procs :
        PostBranch(p) =>
            /\ \A k \in CallsTo(p, "create_row") :
                  /\ k > 1
                  /\ calls[p][k - 1].svc = "create_file"
                  /\ ~calls[p][k - 1].raised
            /\ resp[p].status = 200 =>
                  LET n == Len(calls[p])
                  IN  /\ n >= 2
                      /\ calls[p][n].svc = "create_row"
                      /\ ~calls[p][n].raised
                      /\ CallsTo(p, "create_file") = {n - 1}
                      /\ resp[p].body.kind = "json"
                      /\ DOMAIN resp[p].body.json = {"id"}
                      /\ \E row \in rows :
                            /\ row.id = resp[p].body.json.id
                            /\ row.data = calls[p][n].data
                            /\ DOMAIN row.data = RowFields
                            /\ row.data.audioUrl.file \in {f.id : f \in bucket}

\* A url request with a docid answered 200 with that id, its row stored.
C12_Witness ==
    /\ PostBranch(1) /\ Done(1)
    /\ CallsTo(1, "diffbot") # {}
    /\ resp[1].status = 200
    /\ resp[1].body.json.id = <<"d">>
    /\ \E row \in rows : row.id = <<"d">> /\ row.data.title = <<"T">>

-----------------------------------------------------------------------------

BodyDocid(p) == DictGet(req[p].body, "docid", None)

\* C13: the row is keyed by the caller's docid when the body has one and by
\* a generated id when it has none: every row-creation call is given the
\* docid, or, without a docid, an id generated by the handler (never None),
\* and the id of a 200 response is the key of the created row.
C13_RowKeyedByDocidOrGeneratedId ==
    \A p \in Procs :
        PostBranch(p) =>
            /\ \A k \in CallsTo(p, "create_row") :
                  IF BodyDocid(p) # None
                  THEN calls[p][k].row_id = BodyDocid(p)
                  ELSE calls[p][k].row_id # None
            /\ resp[p].status = 200 =>
                  \E row \in rows : row.id = resp[p].body.json.id

-----------------------------------------------------------------------------

\* Positions of the speech-synthesis calls of p that failed (returned "").
FailedTts(p) ==
    {k \in CallsTo(p, "tts") : calls[p][k].ret = "" /\ ~calls[p][k].raised}

\* C14: a speech-synthesis failure does not fail the request. After a
\* failed generate_tts no error is logged for it and main goes on to the
\* upload: the next call, made whenever the bucket id is configured, is
\* create_file on /tmp/audio.mp3.
C14_TtsFailureIsIgnored ==
    \A p \in Procs :
        \A k \in FailedTts(p) :
            IF k = Len(calls[p])
            THEN \/ /\ pc[p] = "create_file"
                    /\ resp[p] = NoResponse
                    /\ errlog[p] = <<>>
                 \/ /\ Done(p)
                    /\ ~HasKey(env, BUCKET_ID)
                    /\ errlog[p] = <<ExcStr(KeyError(BUCKET_ID))>>
            ELSE /\ calls[p][k + 1].svc = "create_file"
                 /\ calls[p][k + 1].path = AUDIO_PATH

\* Speech synthesis failed before writing, the file left by an earlier
\* invocation was uploaded, and the request ended with 200 and a row whose
\* audioUrl names that stale file.
C14_Witness ==
    /\ Done(1)
    /\ FailedTts(1) # {}
    /\ resp[1].status = 200
    /\ \E row \in rows, f \in bucket :
          /\ row.id = resp[1].body.json.id
          /\ row.data.audioUrl.file = f.id
          /\ f.content = StaleAudio

-----------------------------------------------------------------------------

\* Markdown characters that sanitization removes wherever they stand.
MarkerChars == {"*", "_", Backtick, ">", "~"}

HasMarkdown(s) == \E i \in 1..Len(s) : s[i] \in MarkerChars \cup {"#"}

\* What the speech service is to be given for the texts the stubbed models
\* return: emphasis markers and a leading heading marker removed.
SpeechOf(s) ==
    IF s = <<"*", "a", "*">> THEN <<"a">>
    ELSE IF s = <<"#", " ", "b">> THEN <<"b">>
    ELSE s

\* C15: sanitization touches only the speech input. The text handed to the
\* speech service is the sanitized simplified text (no marker left), while
\* the row of a successful request stores the simplified text and the
\* summary as the simplify and summarize calls returned them, Markdown
\* included, in exactly the fields title, simplifiedText, tldr, audioUrl.
C15_OnlySpeechInputIsSanitized ==
    \A p \in Procs :
        PostBranch(p) =>
            /\ \A k \in CallsTo(p, "tts") :
                  /\ calls[p][k].text = SpeechOf(loc[p].simplified)
                  /\ \A i \in 1..Len(calls[p][k].text) :
                        calls[p][k].text[i] \notin MarkerChars
            /\ \A k \in CallsTo(p, "create_row") :
                  /\ DOMAIN calls[p][k].data = RowFields
                  /\ calls[p][k].data.simplifiedText = loc[p].simplified
                  /\ calls[p][k].data.tldr = loc[p].tldr
                  /\ HasMarkdown(calls[p][k].data.simplifiedText)
                  /\ HasMarkdown(calls[p][k].data.tldr)
            /\ resp[p].status = 200 =>
                  \E row \in rows :
                      /\ row.id = resp[p].body.json.id
                      /\ row.data = LastCall(p).data

\* A successful request whose simplified text is a Markdown heading: the
\* row keeps "# b", the speech service was given "b".
C15_Witness ==
    /\ PostBranch(1) /\ Done(1)
    /\ resp[1].status = 200
    /\ loc[1].simplified = <<"#", " ", "b">>
    /\ \E k \in CallsTo(1, "tts") : calls[1][k].text = <<"b">>
    /\ \E row \in rows :
          /\ row.data.simplifiedText = <<"#", " ", "b">>
          /\ row.data.tldr = <<"*", "a", "*">>

-----------------------------------------------------------------------------

\* The speech synthesis of every invocation was called and succeeded.
AllSynthesized ==
    \A q \in Procs :
        /\ CallsTo(q, "tts") # {}
        /\ \A k \in CallsTo(q, "tts") : calls[q][k].ret = AUDIO_PATH

\* The file an invocation uploaded, as object storage holds it.
UploadedBy(p) == {f \in bucket : f.id = loc[p].audio_link.file}

\* C16: invocations share no mutable state: when the speech synthesis of
\* both invocations succeeded, the audio file an invocation uploaded is the
\* one synthesized from its own simplified text.
C16_EachUploadIsOwnAudio ==
    AllSynthesized =>
        \A p \in Procs :
            \A f \in UploadedBy(p) :
                f.content = Audio(clean_text_for_tts(loc[p].simplified))

-----------------------------------------------------------------------------

\* C17: an OPTIONS request is terminal. Once main has run on it the
\* invocation is over with status 200, an empty body and exactly the three
\* CORS headers, whether or not the request has an x-appwrite-key header
\* and the project id is configured; no service was called, nothing was
\* logged and nothing was stored.
C17_OptionsIsTerminal ==
    \A p \in Procs :
        req[p].method = "OPTIONS" =>
            /\ Done(p)
            /\ resp[p].status = 200
            /\ resp[p].body = EmptyBody
            /\ resp[p].headers =
                  {<<"Access-Control-Allow-Origin", ExpectedAllowOrigin(req[p])>>,
                   <<"Access-Control-Allow-Methods", "POST, GET, OPTIONS">>,
                   <<"Access-Control-Allow-Headers", "Content-Type, Authorization">>}
            /\ calls[p] = <<>>
            /\ errlog[p] = <<>>
            /\ bucket = {} /\ rows = {}

\* An OPTIONS request without x-appwrite-key, in an environment without
\* project id, answered 200.
C17_Witness ==
    /\ req[1].method = "OPTIONS"
    /\ ~HasKey(req[1].headers, "x-appwrite-key")
    /\ ~HasKey(env, PROJECT_ID)
    /\ Done(1) /\ resp[1].status = 200
    /\ Cardinality(resp[1].headers) = 3

-----------------------------------------------------------------------------

\* The stage an external call belongs to: 1 acquisition (the title call of
\* a text request, or the article fetch), 2 simplify, 3 summarize,
\* 4 synthesize, 5 upload, 6 row creation.
Stage(c) ==
    CASE c.svc = "diffbot" -> 1
      [] c.svc = "llm" ->
            (IF c.prompt.template = TITLE_TEMPLATE THEN 1
             ELSE IF c.prompt.template = SIMPLIFY_TEMPLATE THEN 2
             ELSE 3)
      [] c.svc = "tts" -> 4
      [] c.svc = "create_file" -> 5
      [] c.svc = "create_row" -> 6

StageCalls(p, n) == {k \in 1..Len(calls[p]) : Stage(calls[p][k]) = n}

\* C18: the calls of a POST invocation go through the stages in order,
\* starting with acquisition, without going back and without leaving a
\* stage out; only the model fallback repeats a call within a stage. A
\* stage is entered only when every earlier stage has delivered its result:
\* simplify after a non-empty article text, summarize after a simplified
\* text, synthesize after a summary, upload after the synthesis has
\* returned, row creation after a successful upload. A failed acquisition,
\* simplify, summarize or upload ends the invocation: an invocation that
\* logged an error or answered has made its last call.
C18_StagesRunInOrder ==
    \A p \in Procs :
        PostBranch(p) =>
            /\ calls[p] # <<>> => Stage(calls[p][1]) = 1
            /\ \A k \in 1..(Len(calls[p]) - 1) :
                  /\ Stage(calls[p][k + 1]) - Stage(calls[p][k]) \in {0, 1}
                  /\ Stage(calls[p][k + 1]) = Stage(calls[p][k]) =>
                        /\ Stage(calls[p][k]) \in {2, 3}
                        /\ calls[p][k + 1].model # calls[p][k].model
            /\ StageCalls(p, 2) # {} =>
                  Truthy(loc[p].article_text) /\ loc[p].title # None
            /\ StageCalls(p, 3) # {} => Truthy(loc[p].simplified)
            /\ (StageCalls(p, 4) # {} \/ pc[p] = "tts_save") =>
                  Truthy(loc[p].tldr)
            /\ pc[p] = "tts_save" =>
                  StageCalls(p, 4) = {} /\ StageCalls(p, 5) = {}
            /\ StageCalls(p, 6) # {} =>
                  /\ \E k \in StageCalls(p, 5) : ~calls[p][k].raised
                  /\ loc[p].audio_link # NoLink
            /\ \A k \in 1..Len(calls[p]) :
                  \/ calls[p][k].svc = "diffbot" /\ ~Truthy(calls[p][k].returned[1])
                  \/ calls[p][k].svc = "create_file" /\ calls[p][k].raised
                  => k = Len(calls[p]) /\ Done(p) /\ resp[p].status \in {404, 500}
            /\ errlog[p] # <<>> =>
                  /\ Done(p) /\ resp[p].status = 500
                  /\ Len(errlog[p]) = 1

\* A request that failed in the summarize stage after all three models
\* were tried: its calls are 1 title, then simplify, then three summarize
\* calls, and nothing after them.
C18_Witness ==
    /\ PostBranch(1) /\ Done(1) /\ resp[1].status = 500
    /\ Cardinality(StageCalls(1, 1)) = 1
    /\ StageCalls(1, 2) # {}
    /\ Cardinality(StageCalls(1, 3)) = 3
    /\ Stage(LastCall(1)) = 3
    /\ loc[1].tldr = None

-----------------------------------------------------------------------------

\* The invocation uploaded its audio file.
Uploaded(p) == \E k \in CallsTo(p, "create_file") : ~calls[p][k].raised

\* The row creation of the invocation failed: the call was refused, or a
\* database setting was missing when the call was to be made.
RowCreationFailed(p) ==
    /\ Done(p) /\ Uploaded(p)
    /\ \/ LastCall(p).svc = "create_row" /\ LastCall(p).raised
       \/ /\ LastCall(p).svc = "create_file"
          /\ ~HasKey(env, DATABASE_ID) \/ ~HasKey(env, TABLE_ID)

\* C19: a completed upload is not rolled back. When the upload succeeded
\* and the row creation failed, the response is 500, the failed row creation
\* (or the upload, when the row creation could not be called) is the last
\* call of the invocation, and the uploaded file is still in object storage
\* while no row refers to it.
C19_NoRollbackOfUpload ==
    \A p \in Procs :
        /\ PostBranch(p) /\ Done(p) /\ Uploaded(p) /\ resp[p].status # 200
              => RowCreationFailed(p)
        /\ RowCreationFailed(p) =>
              /\ resp[p].status = 500
              /\ \A k \in 1..Len(calls[p]) :
                    /\ calls[p][k].svc \in
                          {"llm", "diffbot", "tts", "create_file", "create_row"}
                    /\ calls[p][k].svc = "create_file" => k >= Len(calls[p]) - 1
              /\ \E f \in bucket :
                    /\ f.id = loc[p].audio_link.file
                    /\ \A row \in rows : row.data.audioUrl.file # f.id

\* The upload succeeded, the database refused the row: 500, the file is
\* in the bucket and there is no row.
C19_Witness ==
    /\ RowCreationFailed(1)
    /\ LastCall(1).svc = "create_row"
    /\ resp[1].status = 500
    /\ Cardinality(bucket) = 1
    /\ rows = {}

-----------------------------------------------------------------------------

FetchReturned == fb.active /\ fb.status = "returned"

\* The article objects of a parsed body: data.get("objects", [{}]).
ObjectsOf(response) == DictGet(response.data, "objects", <<{}>>)

\* The response carries an article object that has text.
HasArticleText(response) ==
    /\ response.kind = "http" /\ response.json_ok
    /\ ObjectsOf(response) # <<>>
    /\ DictGet(ObjectsOf(response)[1], "text", <<>>) # <<>>

\* What fetch_article_text owes for a response when `failed` are the
\* statuses that count as failure.
FetchContract(response, returned, failed) ==
    /\ (\/ response.kind = "exception"
        \/ response.status \in failed
        \/ ~response.json_ok
        \/ ObjectsOf(response) = <<>>) => returned = <<<<>>, <<>>>>
    /\ returned[1] # <<>> =>
          /\ response.status \notin failed
          /\ HasArticleText(response)
          /\ returned[1] = Lookup(ObjectsOf(response)[1], "text")
    /\ (/\ response.status \notin failed
        /\ HasArticleText(response)
        /\ ~HasKey(ObjectsOf(response)[1], "title")) => returned[2] = Untitled

\* C20 as stated: fetch_article_text returns, and returns ("", "") after a
\* network error or timeout, a status outside 200..299, an unparsable body
\* or an empty objects list; it returns a non-empty text only for a 2xx
\* response with an article object that has text; such an article without
\* title gets the title "Untitled".
C20_Original ==
    FetchReturned =>
        FetchContract(fb.response, fb.returned, (0..599) \ (200..299))

\* C20, amended: the same with the statuses 400..599 as the failed ones: a
\* response with any other status is used like a 200 response.
C20_FetchSwallowsFailures ==
    FetchReturned => FetchContract(fb.response, fb.returned, 400..599)

\* A 503 response whose body holds an article with text: ("", "").
C20_Witness ==
    /\ FetchReturned
    /\ fb.response.status = 503
    /\ HasArticleText(fb.response)
    /\ fb.returned = <<<<>>, <<>>>>

====
